---- MODULE Spec2Model ----
(***************************************************************************)
(* Model of z0rr0/spts: the token protocol (auth), the TCP server engine   *)
(* (server) and the cancellable random Reader / discarding Writer (common).*)
(*                                                                         *)
(* The specifications of the module:                                      *)
(*   SpecToken  - Token.Sign / Token.Verify on one token object            *)
(*   SpecAuth   - one connection: client Handshake against handleConnection*)
(*   Spec       - the server engine: accept goroutine, semaphore, sessions *)
(*   FairSpec, FairCancelSpec - the engine with its goroutines running     *)
(*   SpecStream - Reader and Writer with their background goroutines       *)
(*   FairStream - SpecStream with the goroutines running                   *)
(*   SpecSession, FairSession - one session: handshake, io.Copy, release   *)
(*   SpecClient - Token.Handshake against any peer                         *)
(*   SpecBoot   - New, ServerTokens and the first steps of the accept loop *)
(*   SpecReplay - the same request presented on a second connection        *)
(*   SpecRead   - common.Read over any io.Reader                            *)
(***************************************************************************)
EXTENDS Integers, Sequences, FiniteSets, TLC

VARIABLES tk, tst, now, peer, wire, srv, cli,
          clients, ctx, listener, semaphore, ch, acc, mainpc, wg, sess,
          sctx, reader, writer, copy, boot, loop

tokVars == <<tk, tst>>
authVars == <<now, peer, wire, srv, cli>>
engVars == <<clients, ctx, listener, semaphore, ch, acc, mainpc, wg, sess>>
strVars == <<sctx, reader, writer>>
sesVars == <<copy, boot, loop>>
vars == <<tk, tst, now, peer, wire, srv, cli,
          clients, ctx, listener, semaphore, ch, acc, mainpc, wg, sess,
          sctx, reader, writer, copy, boot, loop>>

(***************************************************************************)
(* Program constants (auth/random.go)                                      *)
(***************************************************************************)
lenAction == 1
lenClientID == 2
lenIP == 16
lenSalt == 32
lenTime == 8
lenSign == 64
lenToken == lenAction + lenClientID + lenIP + lenSalt + lenTime + lenSign
timestampLimit == 30

(***************************************************************************)
(* Bounds of the model                                                     *)
(***************************************************************************)
MaxClientID == 3
MaxSalt == 1
MaxAddr == 2
MaxTouch == 2
StartNow == 1000
MaxConns == 3
MaxClients == 2
MaxBuf == 2
MaxCalls == 3

ClientIDs == 1..MaxClientID
Salts == 0..MaxSalt
Addrs == 1..MaxAddr
\* secrets are opaque byte strings; the first two are the ones of the tests
Secrets == {"3312a18b", "666bf6a2", "0badc0de"}
Nil == "nil"

(***************************************************************************)
(* net.IP values: nil, the 4-byte form and the 16-byte form of an address. *)
(* The 16 bytes on the wire are identified by the address number, 0 being  *)
(* sixteen zero bytes.                                                     *)
(***************************************************************************)
NilIP == [form |-> 0, addr |-> 0]
IPs == {NilIP} \cup [form : {4, 16}, addr : Addrs]

\* net.IP.To16 followed by copy into buf[endClient:]: nil copies nothing
To16(ip) == IF ip.form = 0 THEN 0 ELSE ip.addr

\* net.IP(header[endClient:endIP]): always the 16-byte form
IPFromWire(b) == [form |-> 16, addr |-> b]

(***************************************************************************)
(* Token (auth/random.go: type Token) and its 123-byte wire form.          *)
(* sha512 over prefix||secret is a collision-free digest: it is modelled   *)
(* as the pair of what was hashed.                                         *)
(***************************************************************************)
ZeroPrefix == [action |-> 0, client |-> 0, ip |-> 0, salt |-> 0, time |-> 0]
Hash(prefix, secret) == [pre |-> prefix, key |-> secret]
ZeroSig == [pre |-> ZeroPrefix, key |-> "zero"]
JunkSig == [pre |-> ZeroPrefix, key |-> "junk"]

NewTokenObj(clientID, secret) ==
  [ClientID |-> clientID, Secret |-> secret, Download |-> FALSE, IP |-> NilIP,
   salt |-> 0, timestamp |-> 0, signature |-> ZeroSig]

NilToken == NewTokenObj(0, "none")

Prefix_NoSalt(t) ==
  [action |-> IF t.Download THEN 0 ELSE 1, client |-> t.ClientID,
   ip |-> To16(t.IP), salt |-> 0, time |-> t.timestamp]

\* Sign, lines 85-96: the first endTime bytes of buf
Prefix(t) ==
  [action |-> IF t.Download THEN 0 ELSE 1, client |-> t.ClientID,
   ip |-> To16(t.IP), salt |-> t.salt, time |-> t.timestamp]

\* the bytes [0, endTime) of a received header
HeaderPrefix(h) ==
  [action |-> h.action, client |-> h.client, ip |-> h.ip, salt |-> h.salt, time |-> h.time]

MkHeader(prefix, sig) ==
  [action |-> prefix.action, client |-> prefix.client, ip |-> prefix.ip,
   salt |-> prefix.salt, time |-> prefix.time, sign |-> sig]

\* Token.Sign: the token after the call (signature field updated)
SignTok(t) == [t EXCEPT !.signature = Hash(Prefix(t), t.Secret)]

\* Token.Sign: the returned buffer
Sign(t) == MkHeader(Prefix(t), SignTok(t).signature)

TokenVerify_KeyOnly(t, signature) == signature.key = t.Secret

\* Token.Verify: re-signs with the current values, then hmac.Equal
TokenVerify(t, signature) == signature = SignTok(t).signature

init_Refresh(t, clock, rnd) == [t EXCEPT !.timestamp = clock, !.salt = rnd]

\* Token.init: timestamp only when it is zero, salt always
init(t, clock, rnd) ==
  [t EXCEPT !.timestamp = IF t.timestamp = 0 THEN clock ELSE t.timestamp,
            !.salt = rnd]

\* Token.Build: init then Sign; the token after the call
BuildTok(t, clock, rnd) == SignTok(init(t, clock, rnd))

\* Token.Build: the returned buffer
Build(t, clock, rnd) == Sign(init(t, clock, rnd))

(***************************************************************************)
(* SpecToken: one token object is signed, its fields are touched, and      *)
(* Verify is called with a candidate signature (TestToken_Verify).         *)
(***************************************************************************)
TokenSpace ==
  [ClientID : ClientIDs, Secret : Secrets, Download : BOOLEAN, IP : IPs,
   salt : Salts, timestamp : {0, StartNow}, signature : {ZeroSig}]

TstIdle == [pc |-> "off", data |-> MkHeader(ZeroPrefix, ZeroSig), signed |-> NilToken,
            touched |-> 0, vsig |-> ZeroSig, ok |-> FALSE]


\* data := token.Sign()
TSign ==
  /\ tst.pc = "new"
  /\ tk' = SignTok(tk)
  /\ tst' = [tst EXCEPT !.pc = "signed", !.data = Sign(tk), !.signed = SignTok(tk)]
  /\ UNCHANGED authVars
  /\ UNCHANGED engVars
  /\ UNCHANGED strVars
  /\ UNCHANGED sesVars

TouchSet(t) ==
  {[t EXCEPT !.ClientID = v] : v \in ClientIDs} \cup
  {[t EXCEPT !.Secret = v] : v \in Secrets} \cup
  {[t EXCEPT !.salt = v] : v \in Salts} \cup
  {[t EXCEPT !.timestamp = v] : v \in {t.timestamp - 1, t.timestamp + 1}} \cup
  {[t EXCEPT !.IP = v] : v \in IPs} \cup
  {[t EXCEPT !.Download = v] : v \in BOOLEAN}

\* the test touches fields of the signed token
TTouch ==
  /\ tst.pc = "signed"
  /\ tst.touched < MaxTouch
  /\ \E t2 \in TouchSet(tk) \ {tk} :
       /\ tk' = t2
       /\ tst' = [tst EXCEPT !.touched = @ + 1]
  /\ UNCHANGED authVars
  /\ UNCHANGED engVars
  /\ UNCHANGED strVars
  /\ UNCHANGED sesVars

\* ok := token.Verify(signature)
TVerify ==
  /\ tst.pc = "signed"
  /\ \E sig \in {tst.data.sign, SignTok(tk).signature, JunkSig} :
       /\ tst' = [tst EXCEPT !.pc = "verified", !.vsig = sig, !.ok = TokenVerify(tk, sig)]
       /\ tk' = SignTok(tk)
  /\ UNCHANGED authVars
  /\ UNCHANGED engVars
  /\ UNCHANGED strVars
  /\ UNCHANGED sesVars


(***************************************************************************)
(* auth.go: verification of a received header                              *)
(***************************************************************************)
ServerIDs == 1..(MaxClientID - 1)
SecretOf(c) == IF c = 1 THEN "3312a18b" ELSE "666bf6a2"

\* the credential table built by ServerTokens: clientID -> *Token
serverTokens == [c \in ServerIDs |-> NewTokenObj(c, SecretOf(c))]

verifyTimestamp_Exclusive(value, clock) ==
  LET timeDiff == clock - value IN
    IF timeDiff >= timestampLimit \/ timeDiff <= -timestampLimit
      THEN [timestamp |-> 0, err |-> "not synchronized time"]
      ELSE [timestamp |-> value, err |-> Nil]

verifyTimestamp(value, clock) ==
  LET timeDiff == clock - value IN
    IF timeDiff > timestampLimit \/ timeDiff < -timestampLimit
      THEN [timestamp |-> 0, err |-> "not synchronized time"]
      ELSE [timestamp |-> value, err |-> Nil]

HeaderToken_Inverted(header, secret, timestamp) ==
  [ClientID |-> header.client, Secret |-> secret, Download |-> (header.action = 1),
   IP |-> IPFromWire(header.ip), salt |-> header.salt, timestamp |-> timestamp,
   signature |-> ZeroSig]

\* the Token literal of verifyHeader, lines 146-154
HeaderToken(header, secret, timestamp) ==
  [ClientID |-> header.client, Secret |-> secret, Download |-> (header.action = 0),
   IP |-> IPFromWire(header.ip), salt |-> header.salt, timestamp |-> timestamp,
   signature |-> ZeroSig]

verifyHeader_TimeFirst(header, tokens, clock, rnd) ==
  LET ts == verifyTimestamp(header.time, clock) IN
    IF ts.err # Nil
      THEN [token |-> NilToken, err |-> ts.err]
      ELSE IF header.client \notin DOMAIN tokens
        THEN [token |-> NilToken, err |-> "unknown clientID"]
        ELSE LET token == HeaderToken(header, tokens[header.client].Secret, ts.timestamp) IN
          IF ~TokenVerify(token, header.sign)
            THEN [token |-> NilToken, err |-> "invalid token signature"]
            ELSE [token |-> init(SignTok(token), clock, rnd), err |-> Nil]

\* verifyHeader: header is the lenToken-byte buffer, rnd what rand.Read yields
verifyHeader(header, tokens, clock, rnd) ==
  IF header.client \notin DOMAIN tokens
    THEN [token |-> NilToken, err |-> "unknown clientID"]
    ELSE LET ts == verifyTimestamp(header.time, clock) IN
      IF ts.err # Nil
        THEN [token |-> NilToken, err |-> ts.err]
        ELSE LET token == HeaderToken(header, tokens[header.client].Secret, ts.timestamp) IN
          IF ~TokenVerify(token, header.sign)
            THEN [token |-> NilToken, err |-> "invalid token signature"]
            ELSE [token |-> init(SignTok(token), clock, rnd), err |-> Nil]

(***************************************************************************)
(* Bytes on a connection: n bytes of header h are available.  A Read       *)
(* returns a count and an error.                                           *)
(***************************************************************************)
ZeroHeader == MkHeader(ZeroPrefix, ZeroSig)
NoBytes == [n |-> 0, h |-> ZeroHeader]
ShortLen == 3

Verify_SingleUse(rd, header, tokens, clock, rnd) ==
  IF rd.err # Nil
    THEN [token |-> NilToken, err |-> "failed to read header data"]
    ELSE IF rd.n # lenToken
      THEN [token |-> NilToken, err |-> "invalid token length"]
      ELSE IF peer.kind = "replay"
        THEN [token |-> NilToken, err |-> "token already used"]
        ELSE verifyHeader(header, tokens, clock, rnd)

\* auth.Verify: one r.Read(header), then verifyHeader
Verify(rd, header, tokens, clock, rnd) ==
  IF rd.err # Nil
    THEN [token |-> NilToken, err |-> "failed to read header data"]
    ELSE IF rd.n # lenToken
      THEN [token |-> NilToken, err |-> "invalid token length"]
      ELSE verifyHeader(header, tokens, clock, rnd)

handleConnection_ErrReply(rd, header, clock, rnd, remoteIP, wr) ==
  LET v == Verify(rd, header, serverTokens, clock, rnd)
      token == [v.token EXCEPT !.IP = remoteIP]
  IN IF v.err # Nil
       THEN [verr |-> v.err, decoded |-> NilToken, token |-> NilToken,
             out |-> IF v.err = "invalid token signature"
                       THEN [n |-> 1, h |-> ZeroHeader] ELSE NoBytes,
             err |-> v.err, pc |-> "closed"]
       ELSE IF wr # "ok"
         THEN [verr |-> Nil, decoded |-> v.token, token |-> SignTok(token),
               out |-> NoBytes, err |-> "write header", pc |-> "closed"]
         ELSE [verr |-> Nil, decoded |-> v.token, token |-> SignTok(token),
               out |-> [n |-> lenToken, h |-> Sign(token)], err |-> Nil, pc |-> "transfer"]

\* handleConnection up to the transfer: what is decoded, written and returned
handleConnection(rd, header, clock, rnd, remoteIP, wr) ==
  LET v == Verify(rd, header, serverTokens, clock, rnd)
      token == [v.token EXCEPT !.IP = remoteIP]
  IN IF v.err # Nil
       THEN [verr |-> v.err, decoded |-> NilToken, token |-> NilToken,
             out |-> NoBytes, err |-> v.err, pc |-> "closed"]
       ELSE IF wr # "ok"
         THEN [verr |-> Nil, decoded |-> v.token, token |-> SignTok(token),
               out |-> NoBytes, err |-> "write header", pc |-> "closed"]
         ELSE [verr |-> Nil, decoded |-> v.token, token |-> SignTok(token),
               out |-> [n |-> lenToken, h |-> Sign(token)], err |-> Nil, pc |-> "transfer"]

(***************************************************************************)
(* SpecAuth: one connection at a time between a peer and handleConnection. *)
(* The peer is the client code (Client.handshake, Token.Handshake) or a    *)
(* raw peer that writes any bytes.                                         *)
(***************************************************************************)
MaxElapsed == 62
\* the values that travel on a connection: verification only compares them,
\* so the ends of each range stand for the range (the last clientID is the
\* one that is not in the server's table)
WireClients == {1, MaxClientID - 1, MaxClientID}
WireSalts == {0, MaxSalt}
WireAddrs == {1, MaxAddr}
TickSteps == {timestampLimit, timestampLimit + 1}
Skews == {-(timestampLimit + 1), -timestampLimit, 0, timestampLimit, timestampLimit + 1}
ConnIPs == [form : {4, 16}, addr : WireAddrs]

PeerIdle == [kind |-> "none"]
WireIdle == [c2s |-> NoBytes, s2c |-> NoBytes, sclosed |-> FALSE]
SrvIdle == [pc |-> "wait", rd |-> [n |-> 0, err |-> Nil], req |-> ZeroHeader, vnow |-> 0,
            verr |-> Nil, decoded |-> NilToken, token |-> NilToken, err |-> Nil,
            fault |-> FALSE, copied |-> "none"]
CliIdle == [pc |-> "idle", token |-> NilToken, err |-> Nil, signedAt |-> 0,
            req |-> ZeroHeader, rd |-> [n |-> 0, err |-> Nil], reply |-> ZeroHeader,
            vnow |-> 0, fault |-> FALSE]


\* time.Now().Unix() advances
Tick ==
  /\ \E d \in TickSteps :
       /\ now + d <= StartNow + MaxElapsed
       /\ now' = now + d
  /\ UNCHANGED <<peer, wire, srv, cli>>
  /\ UNCHANGED tokVars
  /\ UNCHANGED engVars
  /\ UNCHANGED strVars
  /\ UNCHANGED sesVars

\* Client.handshake and Token.Handshake up to the write of the request
ClientWrite ==
  /\ peer.kind = "none"
  /\ cli.pc = "idle"
  /\ \E t0 \in (IF cli.token = NilToken
                  THEN {NewTokenObj(c, s) : c \in WireClients, s \in Secrets}
                  ELSE {cli.token}),
        download \in BOOLEAN, rnd \in WireSalts, serverIP \in ConnIPs,
        wr \in {"ok", "err", "short"} :
       LET t1 == [t0 EXCEPT !.IP = serverIP, !.Download = download]
           header == Build(t1, now, rnd)
       IN /\ peer' = [kind |-> "client"]
          /\ cli' = [cli EXCEPT !.token = BuildTok(t1, now, rnd),
                                !.signedAt = now,
                                !.req = header,
                                !.pc = IF wr = "ok" THEN "sent" ELSE "done",
                                !.err = IF wr = "ok" THEN Nil
                                        ELSE IF wr = "err" THEN "failed to write header data"
                                        ELSE "invalid write token length"]
          /\ wire' = [wire EXCEPT !.c2s = IF wr = "ok" THEN [n |-> lenToken, h |-> header]
                                          ELSE IF wr = "short" THEN [n |-> lenToken - 1, h |-> header]
                                          ELSE NoBytes]
  /\ UNCHANGED <<now, srv>>
  /\ UNCHANGED tokVars
  /\ UNCHANGED engVars
  /\ UNCHANGED strVars
  /\ UNCHANGED sesVars

\* the signatures a raw peer can put after a prefix: the digest of the prefix
\* or of a prefix differing in one field, under any secret, or other bytes
PrefixVariants(p) ==
  {p} \cup {[p EXCEPT !.action = v] : v \in {0, 1, 2}}
      \cup {[p EXCEPT !.client = v] : v \in WireClients}
      \cup {[p EXCEPT !.ip = v] : v \in WireAddrs}
      \cup {[p EXCEPT !.salt = v] : v \in WireSalts}
      \cup {[p EXCEPT !.time = p.time + v] : v \in {-1, 1}}

PeerPrefixes(clock) ==
  [action : {0, 1, 2}, client : WireClients, ip : WireAddrs, salt : WireSalts,
   time : {clock + s : s \in Skews}]

\* a raw peer writes 123 bytes of its choice, or fewer
PeerWrite ==
  /\ peer.kind = "none"
  /\ cli.pc = "idle"
  /\ cli.token = NilToken
  /\ peer' = [kind |-> "raw"]
  /\ \/ wire' = [wire EXCEPT !.c2s = [n |-> ShortLen, h |-> ZeroHeader]]
     \/ \E p \in PeerPrefixes(now) :
          \E sig \in {Hash(q, k) : q \in PrefixVariants(p), k \in Secrets} \cup {JunkSig} :
            wire' = [wire EXCEPT !.c2s = [n |-> lenToken, h |-> MkHeader(p, sig)]]
  /\ UNCHANGED <<now, srv, cli>>
  /\ UNCHANGED tokVars
  /\ UNCHANGED engVars
  /\ UNCHANGED strVars
  /\ UNCHANGED sesVars

\* what conn.Read(buf) of lenToken bytes can return when avail bytes are there:
\* everything, a part of it, or an error (EOF, reset, deadline)
ReadResults(avail) ==
  {[n |-> 0, err |-> "io"]} \cup
  (IF avail.n > 0 THEN {[n |-> avail.n, err |-> Nil]} ELSE {}) \cup
  (IF avail.n > ShortLen THEN {[n |-> ShortLen, err |-> Nil]} ELSE {})

\* the session: handleConnection reads, verifies, replies (or closes);
\* remoteIP is conn.RemoteAddr() as the server observes it
ServerHandshake ==
  /\ srv.pc = "wait"
  /\ peer.kind # "none"
  /\ \E rd \in ReadResults(wire.c2s), rnd \in WireSalts, wr \in {"ok", "err"}, remoteIP \in ConnIPs :
       LET r == handleConnection(rd, wire.c2s.h, now, rnd, remoteIP, wr) IN
         /\ srv' = [srv EXCEPT !.pc = r.pc, !.rd = rd, !.req = wire.c2s.h, !.vnow = now,
                               !.verr = r.verr, !.decoded = r.decoded, !.token = r.token,
                               !.err = r.err,
                               !.fault = (wire.c2s.n = lenToken /\ rd.n # lenToken)
                                         \/ (r.verr = Nil /\ wr # "ok")]
         /\ wire' = [wire EXCEPT !.s2c = r.out, !.sclosed = (r.pc = "closed")]
  /\ UNCHANGED <<now, peer, cli>>
  /\ UNCHANGED tokVars
  /\ UNCHANGED engVars
  /\ UNCHANGED strVars
  /\ UNCHANGED sesVars

(***************************************************************************)
(* The transfer phase of handleConnection: io.Copy between the connection  *)
(* and the Reader (download) or the Writer (upload) returns nil or the     *)
(* first error of a read or a write.  The errors of the socket are         *)
(* *net.OpError values, named here by their message.                       *)
(***************************************************************************)
OpErrors == {"connection reset by peer", "broken pipe", "i/o timeout", "use of closed network connection"}

\* what io.Copy(conn, reader) can return: nil when the Reader ends with io.EOF,
\* an error of conn.Write, or the Reader's cancellation error
DownloadCopyErrs == {Nil, "context canceled"} \cup OpErrors

\* what io.Copy(writer, conn) can return: nil when the peer closes (io.EOF of
\* conn.Read), an error of conn.Read, or the Writer's error
UploadCopyErrs ==
  {Nil, "writer timeout", "context canceled"} \cup (OpErrors \ {"broken pipe"})

\* common.SkipError
SkipError(err) ==
  IF err = Nil THEN Nil
  ELSE IF err \in {"EOF", "context canceled"} THEN Nil
  ELSE IF err \notin OpErrors THEN err
  ELSE IF err \in {"connection reset by peer", "broken pipe", "i/o timeout"} THEN Nil
  ELSE err

\* server download(ctx, conn), given what io.Copy returned
download(err) == IF SkipError(err) # Nil THEN "data write/read" ELSE Nil

\* server upload(ctx, conn), given what io.Copy returned
upload(err) == IF err # Nil /\ err # "writer timeout" THEN "data write/read" ELSE Nil

\* the transfer ends, handleConnection returns and the deferred conn.Close runs
ServerFinish ==
  /\ srv.pc = "transfer"
  /\ \E e \in (IF srv.token.Download THEN DownloadCopyErrs ELSE UploadCopyErrs) :
       srv' = [srv EXCEPT !.pc = "closed", !.copied = e,
                          !.err = IF srv.token.Download THEN download(e) ELSE upload(e)]
  /\ wire' = [wire EXCEPT !.sclosed = TRUE]
  /\ UNCHANGED <<now, peer, cli>>
  /\ UNCHANGED tokVars
  /\ UNCHANGED engVars
  /\ UNCHANGED strVars
  /\ UNCHANGED sesVars

\* Token.Handshake after its write: one rw.Read(header), the length check and
\* verifyHeader against the table that holds the client's own token
handshakeReply(t, rd, header, clock, rnd) ==
  IF rd.err # Nil
    THEN "failed to read header data"
    ELSE IF rd.n # lenToken
      THEN "invalid read token length"
      ELSE verifyHeader(header, [c \in {t.ClientID} |-> t], clock, rnd).err

\* Token.Handshake from the read of the reply to its return
ClientRead ==
  /\ cli.pc = "sent"
  /\ srv.pc # "wait"
  /\ \E rd \in ReadResults(wire.s2c), rnd \in WireSalts :
       cli' = [cli EXCEPT !.pc = "done",
                          !.err = handshakeReply(cli.token, rd, wire.s2c.h, now, rnd),
                          !.rd = rd, !.reply = wire.s2c.h,
                          !.vnow = now,
                          !.fault = (wire.s2c.n = lenToken /\ rd.n # lenToken)]
  /\ UNCHANGED <<now, peer, wire, srv>>
  /\ UNCHANGED tokVars
  /\ UNCHANGED engVars
  /\ UNCHANGED strVars
  /\ UNCHANGED sesVars

\* both ends are done with the connection; the client keeps its token object
NewConn ==
  /\ srv.pc = "closed"
  /\ cli.pc \in {"idle", "done"}
  /\ peer' = PeerIdle
  /\ wire' = WireIdle
  /\ srv' = SrvIdle
  /\ cli' = [CliIdle EXCEPT !.token = cli.token]
  /\ UNCHANGED now
  /\ UNCHANGED tokVars
  /\ UNCHANGED engVars
  /\ UNCHANGED strVars
  /\ UNCHANGED sesVars

(***************************************************************************)
(* SpecClient: Token.Handshake against any peer.  The client dialled a     *)
(* server that is not this program: it answers the request with bytes of   *)
(* its choice, or with fewer than lenToken bytes, or not at all.           *)
(***************************************************************************)
\* the replies of such a peer to the request with prefix p: a prefix that
\* differs from p in at most one field, signed under any secret over itself or
\* over p, or followed by other bytes
RogueReplies(p) ==
  UNION {{MkHeader(q, sig) : sig \in {Hash(q, k) : k \in Secrets}
                                     \cup {Hash(p, k) : k \in Secrets} \cup {JunkSig}} :
           q \in PrefixVariants(p)}

PeerReply ==
  /\ cli.pc = "sent"
  /\ srv.pc = "wait"
  /\ peer' = [kind |-> "rogue"]
  /\ srv' = [srv EXCEPT !.pc = "absent"]
  /\ \/ wire' = [wire EXCEPT !.s2c = NoBytes]
     \/ wire' = [wire EXCEPT !.s2c = [n |-> ShortLen, h |-> ZeroHeader]]
     \/ \E h \in RogueReplies(HeaderPrefix(cli.req)) :
          wire' = [wire EXCEPT !.s2c = [n |-> lenToken, h |-> h]]
  /\ UNCHANGED <<now, cli>>
  /\ UNCHANGED tokVars
  /\ UNCHANGED engVars
  /\ UNCHANGED strVars
  /\ UNCHANGED sesVars

\* the client is done with the connection and keeps its token object
ClientRedial ==
  /\ cli.pc = "done"
  /\ peer' = PeerIdle
  /\ wire' = WireIdle
  /\ srv' = SrvIdle
  /\ cli' = [CliIdle EXCEPT !.token = cli.token]
  /\ UNCHANGED now
  /\ UNCHANGED tokVars
  /\ UNCHANGED engVars
  /\ UNCHANGED strVars
  /\ UNCHANGED sesVars

(***************************************************************************)
(* SpecReplay: a peer presents a request, and when the session is over it  *)
(* opens a new connection and presents the same bytes again.               *)
(***************************************************************************)
\* the peer writes 123 bytes: any direction byte, clientID, address and
\* timestamp around the window, signed under any secret or not signed
PeerPresent ==
  /\ peer.kind = "none"
  /\ peer' = [kind |-> "raw"]
  /\ \E p \in {q \in PeerPrefixes(now) : q.salt = 0} :
       \E sig \in {Hash(p, k) : k \in Secrets} \cup {JunkSig} :
         wire' = [wire EXCEPT !.c2s = [n |-> lenToken, h |-> MkHeader(p, sig)]]
  /\ UNCHANGED <<now, srv, cli>>
  /\ UNCHANGED tokVars
  /\ UNCHANGED engVars
  /\ UNCHANGED strVars
  /\ UNCHANGED sesVars

\* the peer keeps what it observed of the first presentation: what the
\* server read, when it decided and what it decided
Replay ==
  /\ srv.pc = "closed"
  /\ peer.kind = "raw"
  /\ peer' = [kind |-> "replay", rd |-> srv.rd, at |-> srv.vnow, verr |-> srv.verr]
  /\ wire' = [WireIdle EXCEPT !.c2s = wire.c2s]
  /\ srv' = SrvIdle
  /\ UNCHANGED <<now, cli>>
  /\ UNCHANGED tokVars
  /\ UNCHANGED engVars
  /\ UNCHANGED strVars
  /\ UNCHANGED sesVars


(***************************************************************************)
(* The server engine (server/server.go): ListenAndServe, the accept        *)
(* goroutine of connChan running connAccept, and one goroutine per         *)
(* accepted connection.                                                    *)
(***************************************************************************)
ConnIDs == 1..MaxConns

\* a send on the buffered channel make(chan struct{}, s.Clients) can proceed
CanSend_Unbounded(sem, cap) == TRUE

CanSend(sem, cap) == sem.n < cap

\* a receive from the channel can proceed (a closed channel never blocks)
CanRecv(sem) == sem.n > 0 \/ sem.closed

SessNew == [pc |-> "new", dir |-> "none", err |-> Nil]
ListenerNew == [backlog |-> <<>>, closed |-> FALSE]
SemaphoreNew == [n |-> 0, closed |-> FALSE]
ChNew == [closed |-> FALSE]
\* the accept goroutine is not started
AccOff == [pc |-> "off", conn |-> 0, err |-> Nil]

\* the requests that arrive on the connections of the engine: a client of the
\* table in either direction, one with a wrong secret, one that is not in the
\* table
EngRequests ==
  {Build([NewTokenObj(1, "3312a18b") EXCEPT !.Download = d, !.IP = [form |-> 4, addr |-> 1]],
         StartNow, 0) : d \in BOOLEAN}
  \cup {Build([NewTokenObj(c, "0badc0de") EXCEPT !.IP = [form |-> 4, addr |-> 1]], StartNow, 0) :
          c \in {1, MaxClientID}}


\* a client dials: the connection waits in the listener's backlog
\* (connections are numbered in the order they arrive)
Connect(c) ==
  /\ sess[c].pc = "new"
  /\ \A d \in ConnIDs : d < c => sess[d].pc # "new"
  /\ ~listener.closed
  /\ sess' = [sess EXCEPT ![c].pc = "backlog"]
  /\ listener' = [listener EXCEPT !.backlog = Append(@, c)]
  /\ UNCHANGED <<clients, ctx, semaphore, ch, acc, mainpc, wg>>
  /\ UNCHANGED tokVars
  /\ UNCHANGED authVars
  /\ UNCHANGED strVars
  /\ UNCHANGED sesVars

\* the top-level context is cancelled
Cancel ==
  /\ ctx = "live"
  /\ ctx' = "canceled"
  /\ UNCHANGED <<clients, listener, semaphore, ch, acc, mainpc, wg, sess>>
  /\ UNCHANGED tokVars
  /\ UNCHANGED authVars
  /\ UNCHANGED strVars
  /\ UNCHANGED sesVars

\* connAccept, listener.SetDeadline: on failure ErrSkipConnection, no slot taken
AcceptSetDeadline ==
  /\ acc.pc = "top"
  /\ \/ acc' = [acc EXCEPT !.pc = "acquire", !.err = Nil]
     \/ acc.err # "skip connection" /\ acc' = [acc EXCEPT !.err = "skip connection"]
  /\ UNCHANGED <<clients, ctx, listener, semaphore, ch, mainpc, wg, sess>>
  /\ UNCHANGED tokVars
  /\ UNCHANGED authVars
  /\ UNCHANGED strVars
  /\ UNCHANGED sesVars

\* connAccept, semaphore <- struct{}{}
AcceptAcquire ==
  /\ acc.pc = "acquire"
  /\ CanSend(semaphore, clients)
  /\ semaphore' = [semaphore EXCEPT !.n = @ + 1]
  /\ acc' = [acc EXCEPT !.pc = "accept"]
  /\ UNCHANGED <<clients, ctx, listener, ch, mainpc, wg, sess>>
  /\ UNCHANGED tokVars
  /\ UNCHANGED authVars
  /\ UNCHANGED strVars
  /\ UNCHANGED sesVars

deferRelease_Leak(n, freeSemaphore) == n

\* the deferred function of connAccept: <-semaphore when freeSemaphore is set
deferRelease(n, freeSemaphore) == IF freeSemaphore THEN n - 1 ELSE n

\* connAccept, AcceptTCP returns a connection; conn.SetDeadline succeeds and the
\* connection is returned with its slot, or fails and the connection is closed
\* and the slot released
AcceptConn ==
  /\ acc.pc = "accept"
  /\ Len(listener.backlog) > 0
  /\ LET c == Head(listener.backlog) IN
       /\ listener' = [listener EXCEPT !.backlog = Tail(@)]
       /\ \/ /\ acc' = [pc |-> "send", conn |-> c, err |-> Nil]
             /\ sess' = [sess EXCEPT ![c].pc = "accepted"]
             /\ semaphore' = [semaphore EXCEPT !.n = deferRelease(@, FALSE)]
          \/ /\ acc' = [pc |-> "top", conn |-> 0, err |-> "skip connection"]
             /\ sess' = [sess EXCEPT ![c].pc = "aborted"]
             /\ semaphore' = [semaphore EXCEPT !.n = deferRelease(@, TRUE)]
  /\ UNCHANGED <<clients, ctx, ch, mainpc, wg>>
  /\ UNCHANGED tokVars
  /\ UNCHANGED authVars
  /\ UNCHANGED strVars
  /\ UNCHANGED sesVars

ctxDone_Never(c) == FALSE

\* connAccept after a timeout of AcceptTCP: ctx.Err() != nil
ctxDone(c) == c # "live"

\* connAccept, AcceptTCP times out: the slot is released; connChan closes ch and
\* returns when the context is done, and loops otherwise
AcceptTimeout ==
  /\ acc.pc = "accept"
  /\ semaphore' = [semaphore EXCEPT !.n = deferRelease(@, TRUE)]
  /\ IF ctxDone(ctx)
       THEN /\ acc' = [pc |-> "exited", conn |-> 0, err |-> "context canceled"]
            /\ ch' = [ch EXCEPT !.closed = TRUE]
       ELSE /\ acc' = [pc |-> "top", conn |-> 0, err |-> "accept timeout"]
            /\ UNCHANGED ch
  /\ UNCHANGED <<clients, ctx, listener, mainpc, wg, sess>>
  /\ UNCHANGED tokVars
  /\ UNCHANGED authVars
  /\ UNCHANGED strVars
  /\ UNCHANGED sesVars

\* connAccept, AcceptTCP fails with an error that is no timeout: the slot is
\* released, ErrSkipConnection is returned and connChan loops
AcceptError ==
  /\ acc.pc = "accept"
  /\ semaphore' = [semaphore EXCEPT !.n = deferRelease(@, TRUE)]
  /\ acc' = [pc |-> "top", conn |-> 0, err |-> "skip connection"]
  /\ UNCHANGED <<clients, ctx, listener, ch, mainpc, wg, sess>>
  /\ UNCHANGED tokVars
  /\ UNCHANGED authVars
  /\ UNCHANGED strVars
  /\ UNCHANGED sesVars

\* connChan sends the connection on ch; ListenAndServe receives it, wg.Add(1)
\* and starts the session goroutine
Dispatch ==
  /\ acc.pc = "send"
  /\ mainpc = "range"
  /\ wg' = wg + 1
  /\ sess' = [sess EXCEPT ![acc.conn].pc = "handshake"]
  /\ acc' = [pc |-> "top", conn |-> 0, err |-> Nil]
  /\ UNCHANGED <<clients, ctx, listener, semaphore, ch, mainpc>>
  /\ UNCHANGED tokVars
  /\ UNCHANGED authVars
  /\ UNCHANGED strVars
  /\ UNCHANGED sesVars

\* the range over ch ends when ch is closed
RangeEnd ==
  /\ mainpc = "range"
  /\ ch.closed
  /\ mainpc' = "wait"
  /\ UNCHANGED <<clients, ctx, listener, semaphore, ch, acc, wg, sess>>
  /\ UNCHANGED tokVars
  /\ UNCHANGED authVars
  /\ UNCHANGED strVars
  /\ UNCHANGED sesVars

WaitReturns_NoWait(w) == TRUE

\* wg.Wait() returns when the counter of the WaitGroup is zero
WaitReturns(w) == w = 0

\* wg.Wait returns; return nil runs close(semaphore) and listener.Close
Return ==
  /\ mainpc = "wait"
  /\ WaitReturns(wg)
  /\ mainpc' = "returned"
  /\ semaphore' = [semaphore EXCEPT !.closed = TRUE]
  /\ listener' = [listener EXCEPT !.closed = TRUE]
  /\ UNCHANGED <<clients, ctx, ch, acc, wg, sess>>
  /\ UNCHANGED tokVars
  /\ UNCHANGED authVars
  /\ UNCHANGED strVars
  /\ UNCHANGED sesVars

tokensAfter_InPlace(tokens, header, clock, rnd) ==
  IF header.client \in DOMAIN tokens /\ verifyTimestamp(header.time, clock).err = Nil
    THEN [tokens EXCEPT ![header.client] =
            init(SignTok(HeaderToken(header, @.Secret, header.time)), clock, rnd)]
    ELSE tokens

\* the table after verifyHeader(header, tokens): the token that is decoded,
\* signed and initialised is a new object built from the entry's ClientID and
\* Secret, and the entry is only read
tokensAfter(tokens, header, clock, rnd) == tokens

\* the session goroutine runs handleConnection up to the transfer; the table
\* loaded by ListenAndServe is boot.tokens, and what the session keeps of its
\* token is the direction
SessHandshake(c) ==
  /\ sess[c].pc = "handshake"
  /\ \E h \in EngRequests, rd \in ReadResults([n |-> lenToken, h |-> ZeroHeader]), wr \in {"ok", "err"} :
       LET r == handleConnection(rd, h, now, 0, [form |-> 4, addr |-> 1], wr) IN
         /\ sess' = [sess EXCEPT ![c] = [pc |-> r.pc,
                                         dir |-> IF r.pc # "transfer" THEN "none"
                                                 ELSE IF r.token.Download THEN "download" ELSE "upload",
                                         err |-> r.err]]
         /\ boot' = [boot EXCEPT !.tokens = IF rd.err = Nil /\ rd.n = lenToken
                                              THEN tokensAfter(@, h, now, 0) ELSE @]
  /\ UNCHANGED <<clients, ctx, listener, semaphore, ch, acc, mainpc, wg>>
  /\ UNCHANGED tokVars
  /\ UNCHANGED authVars
  /\ UNCHANGED strVars
  /\ UNCHANGED <<copy, loop>>

\* download or upload returns, with or without an error, and the deferred
\* conn.Close of handleConnection runs
SessTransfer(c) ==
  /\ sess[c].pc = "transfer"
  /\ \E e \in {Nil, "data write/read"} :
       sess' = [sess EXCEPT ![c].pc = "closed", ![c].err = e]
  /\ UNCHANGED <<clients, ctx, listener, semaphore, ch, acc, mainpc, wg>>
  /\ UNCHANGED tokVars
  /\ UNCHANGED authVars
  /\ UNCHANGED strVars
  /\ UNCHANGED sesVars

\* the session goroutine: the error of handleConnection is logged, cancel(),
\* <-semaphore
SessRelease(c) ==
  /\ sess[c].pc = "closed"
  /\ CanRecv(semaphore)
  /\ semaphore' = [semaphore EXCEPT !.n = IF @ > 0 THEN @ - 1 ELSE @]
  /\ sess' = [sess EXCEPT ![c] = [SessNew EXCEPT !.pc = "released"]]
  /\ UNCHANGED <<clients, ctx, listener, ch, acc, mainpc, wg>>
  /\ UNCHANGED tokVars
  /\ UNCHANGED authVars
  /\ UNCHANGED strVars
  /\ UNCHANGED sesVars

\* the session goroutine: wg.Done()
SessDone(c) ==
  /\ sess[c].pc = "released"
  /\ wg' = wg - 1
  /\ sess' = [sess EXCEPT ![c].pc = "done"]
  /\ UNCHANGED <<clients, ctx, listener, semaphore, ch, acc, mainpc>>
  /\ UNCHANGED tokVars
  /\ UNCHANGED authVars
  /\ UNCHANGED strVars
  /\ UNCHANGED sesVars


NextEng ==
  \/ \E c \in ConnIDs : Connect(c)
  \/ Cancel
  \/ AcceptSetDeadline
  \/ AcceptAcquire
  \/ AcceptConn
  \/ AcceptTimeout
  \/ AcceptError
  \/ Dispatch
  \/ RangeEnd
  \/ Return
  \/ \E c \in ConnIDs : SessHandshake(c)
  \/ \E c \in ConnIDs : SessTransfer(c)
  \/ \E c \in ConnIDs : SessRelease(c)
  \/ \E c \in ConnIDs : SessDone(c)


(***************************************************************************)
(* Reader (common: NewReader, Reader.Read, the errChan version) and Writer *)
(* (common/writer.go).  Each has a background goroutine that hands one     *)
(* value per call over the unbuffered errChan; sctx is the governing       *)
(* context: live, past its deadline, or cancelled.                         *)
(***************************************************************************)
CtxStates == {"live", "deadline", "canceled"}

\* ctx.Err()
ctxErr(c) ==
  IF c = "deadline" THEN "context deadline exceeded"
  ELSE IF c = "canceled" THEN "context canceled" ELSE Nil

\* the goroutine's select: the value it is going to send on errChan
readerSelect(c) ==
  IF c = "live" THEN [g |-> "sendNil", val |-> Nil]
  ELSE IF ctxErr(c) = "context deadline exceeded"
    THEN [g |-> "sendErr", val |-> "EOF"]
    ELSE [g |-> "sendErr", val |-> ctxErr(c)]

writerSelect(c) ==
  IF c = "live" THEN [g |-> "sendNil", val |-> Nil]
  ELSE IF ctxErr(c) = "context deadline exceeded"
    THEN [g |-> "sendErr", val |-> "writer timeout"]
    ELSE [g |-> "sendErr", val |-> ctxErr(c)]

\* <-errChan: the value of the pending send, or the zero value (nil) of a
\* closed channel
chanRecv(o) == IF o.g = "closed" THEN Nil ELSE o.val

afterSend_NoClose(o) == IF o.g = "sendNil" THEN "select" ELSE "exited"

\* the goroutine after its send was received: loops, or returns and closes
afterSend(o) == IF o.g = "sendNil" THEN "select" ELSE "closed"

\* Reader.Read(p) after the receive: rnd.Read fills p
readerRead(err, plen) == IF err # Nil THEN [n |-> 0, err |-> err] ELSE [n |-> plen, err |-> Nil]

\* Writer.Write(p) after the receive
writerWrite(err, plen) == IF err # Nil THEN [n |-> 0, err |-> err] ELSE [n |-> plen, err |-> Nil]

\* g, val: the goroutine; call, p, began: the call in progress; res and last:
\* what the last completed call returned, its len(p) and the context's state
\* when it began and when it returned
StreamNew == [g |-> "select", val |-> Nil, call |-> "idle", p |-> 0, began |-> "live",
              res |-> [n |-> 0, err |-> Nil],
              last |-> [p |-> 0, began |-> "live", ended |-> "live"], calls |-> 0]

\* no Reader and no Writer exists
StreamIdle == [StreamNew EXCEPT !.g = "off"]


\* the deadline of the context passes
CtxDeadline ==
  /\ sctx = "live"
  /\ sctx' = "deadline"
  /\ UNCHANGED <<reader, writer>>
  /\ UNCHANGED tokVars
  /\ UNCHANGED authVars
  /\ UNCHANGED engVars
  /\ UNCHANGED sesVars

\* cancel() is called
CtxCancel ==
  /\ sctx = "live"
  /\ sctx' = "canceled"
  /\ UNCHANGED <<reader, writer>>
  /\ UNCHANGED tokVars
  /\ UNCHANGED authVars
  /\ UNCHANGED engVars
  /\ UNCHANGED sesVars

\* NewReader's goroutine evaluates its select and goes to its send
ReaderSelect ==
  /\ reader.g = "select"
  /\ reader' = [reader EXCEPT !.g = readerSelect(sctx).g, !.val = readerSelect(sctx).val]
  /\ UNCHANGED <<sctx, writer>>
  /\ UNCHANGED tokVars
  /\ UNCHANGED authVars
  /\ UNCHANGED engVars
  /\ UNCHANGED sesVars

\* a call Read(p) begins: it blocks in <-r.errChan
ReaderCall ==
  /\ reader.call = "idle"
  /\ reader.calls < MaxCalls
  /\ \E plen \in 1..MaxBuf :
       reader' = [reader EXCEPT !.call = "waiting", !.p = plen, !.began = sctx]
  /\ UNCHANGED <<sctx, writer>>
  /\ UNCHANGED tokVars
  /\ UNCHANGED authVars
  /\ UNCHANGED engVars
  /\ UNCHANGED sesVars

\* the receive completes and Read returns
ReaderReturn ==
  /\ reader.call = "waiting"
  /\ reader.g \in {"sendNil", "sendErr", "closed"}
  /\ reader' = [reader EXCEPT !.call = "idle",
                              !.res = readerRead(chanRecv(reader), reader.p),
                              !.last = [p |-> reader.p, began |-> reader.began, ended |-> sctx],
                              !.calls = @ + 1,
                              !.g = IF @ = "closed" THEN @ ELSE afterSend(reader),
                              !.val = Nil]
  /\ UNCHANGED <<sctx, writer>>
  /\ UNCHANGED tokVars
  /\ UNCHANGED authVars
  /\ UNCHANGED engVars
  /\ UNCHANGED sesVars

\* NewWriter's goroutine evaluates its select and goes to its send
WriterSelect ==
  /\ writer.g = "select"
  /\ writer' = [writer EXCEPT !.g = writerSelect(sctx).g, !.val = writerSelect(sctx).val]
  /\ UNCHANGED <<sctx, reader>>
  /\ UNCHANGED tokVars
  /\ UNCHANGED authVars
  /\ UNCHANGED engVars
  /\ UNCHANGED sesVars

\* a call Write(p) begins: it blocks in <-w.errChan
WriterCall ==
  /\ writer.call = "idle"
  /\ writer.calls < MaxCalls
  /\ \E plen \in 1..MaxBuf :
       writer' = [writer EXCEPT !.call = "waiting", !.p = plen, !.began = sctx]
  /\ UNCHANGED <<sctx, reader>>
  /\ UNCHANGED tokVars
  /\ UNCHANGED authVars
  /\ UNCHANGED engVars
  /\ UNCHANGED sesVars

\* the receive completes and Write returns
WriterReturn ==
  /\ writer.call = "waiting"
  /\ writer.g \in {"sendNil", "sendErr", "closed"}
  /\ writer' = [writer EXCEPT !.call = "idle",
                              !.res = writerWrite(chanRecv(writer), writer.p),
                              !.last = [p |-> writer.p, began |-> writer.began, ended |-> sctx],
                              !.calls = @ + 1,
                              !.g = IF @ = "closed" THEN @ ELSE afterSend(writer),
                              !.val = Nil]
  /\ UNCHANGED <<sctx, reader>>
  /\ UNCHANGED tokVars
  /\ UNCHANGED authVars
  /\ UNCHANGED engVars
  /\ UNCHANGED sesVars


(***************************************************************************)
(* Start-up (server.go: New, ListenAndServe up to the accept loop;         *)
(* auth.go: ServerTokens, NewToken, Verify).  The value of SPTS_TOKENS is  *)
(* the sequence of its comma-separated pairs after the trim of commas and  *)
(* spaces; a pair is well formed ("clientID:hex") or not.                  *)
(***************************************************************************)
MaxPairs == 2

\* NewToken(pair): a pair that parses gives a token, any other
\* ErrTokenFormat
EnvPairs ==
  {[ok |-> TRUE, id |-> 1, secret |-> "3312a18b"],
   [ok |-> TRUE, id |-> 2, secret |-> "666bf6a2"],
   [ok |-> TRUE, id |-> 1, secret |-> "0badc0de"],
   [ok |-> FALSE, id |-> 0, secret |-> "none"]}

Envs == UNION {[1..n -> EnvPairs] : n \in 0..MaxPairs}

\* the empty credential table
NoTokens == [c \in {} |-> NilToken]

\* auth.ServerTokens on the value env
ServerTokens(env) ==
  IF Len(env) = 0
    THEN [tokens |-> NoTokens, err |-> "auth required"]
    ELSE IF \E i \in 1..Len(env) : ~env[i].ok
      THEN [tokens |-> NoTokens, err |-> "invalid token format"]
      ELSE LET lastOf(c) == CHOOSE i \in 1..Len(env) :
                              /\ env[i].id = c
                              /\ \A j \in (i + 1)..Len(env) : env[j].id # c
           IN [tokens |-> [c \in {env[i].id : i \in 1..Len(env)} |->
                             NewTokenObj(c, env[lastOf(c)].secret)],
               err |-> Nil]

\* the io.Reader nil
NilReader == [nil |-> TRUE, rd |-> [n |-> 0, err |-> Nil], h |-> ZeroHeader]

\* auth.Verify(r, tokens): r is nil, or a reader that yields rd for header h
VerifyOf(r, tokens, clock, rnd) ==
  IF r.nil
    THEN [token |-> NilToken, err |-> "nil reader"]
    ELSE Verify(r.rd, r.h, tokens, clock, rnd)

New_AnyClients(c) == [ok |-> TRUE, err |-> Nil]

\* server.New(params) with params.Clients = c
New(c) ==
  IF c < 1
    THEN [ok |-> FALSE, err |-> "allow clients number must be greater than 0"]
    ELSE [ok |-> TRUE, err |-> Nil]

\* the server is not constructed
BootIdle == [pc |-> "off", want |-> 0, env |-> <<>>, err |-> Nil, tokens |-> NoTokens,
             vpc |-> "none", vtab |-> NoTokens, vres |-> [token |-> NilToken, err |-> Nil]]

\* New is called with Clients = c while SPTS_TOKENS holds env
BootNew ==
  /\ boot.pc = "off"
  /\ \E c \in 0..MaxClients, env \in Envs :
       /\ boot' = [boot EXCEPT !.pc = IF New(c).ok THEN "created" ELSE "failed",
                               !.want = c, !.env = env, !.err = New(c).err]
       /\ clients' = IF New(c).ok THEN c ELSE clients
  /\ UNCHANGED <<ctx, listener, semaphore, ch, acc, mainpc, wg, sess>>
  /\ UNCHANGED <<copy, loop>>
  /\ UNCHANGED tokVars
  /\ UNCHANGED authVars
  /\ UNCHANGED strVars

\* ListenAndServe up to the range over connChan: the tokens are loaded (its
\* error is returned), the listener and the semaphore are made and the accept
\* goroutine is started
BootServe ==
  /\ boot.pc = "created"
  /\ LET r == ServerTokens(boot.env) IN
       IF r.err # Nil
         THEN /\ boot' = [boot EXCEPT !.pc = "returned", !.err = r.err]
              /\ UNCHANGED <<semaphore, acc, mainpc>>
         ELSE /\ boot' = [boot EXCEPT !.pc = "serving", !.tokens = r.tokens]
              /\ semaphore' = SemaphoreNew
              /\ acc' = [pc |-> "top", conn |-> 0, err |-> Nil]
              /\ mainpc' = "range"
  /\ UNCHANGED <<clients, ctx, listener, ch, wg, sess>>
  /\ UNCHANGED <<copy, loop>>
  /\ UNCHANGED tokVars
  /\ UNCHANGED authVars
  /\ UNCHANGED strVars

\* auth.Verify is called with the loaded table or with an empty one, on no
\* reader or on a reader of a request
BootVerify ==
  /\ boot.vpc = "none"
  /\ \E tokens \in {NoTokens, boot.tokens},
        r \in {NilReader} \cup {[nil |-> FALSE, rd |-> rd, h |-> h] :
                            rd \in ReadResults([n |-> lenToken, h |-> ZeroHeader]),
                            h \in EngRequests} :
       boot' = [boot EXCEPT !.vpc = IF r.nil THEN "nil" ELSE "read",
                            !.vtab = tokens, !.vres = VerifyOf(r, tokens, now, 0)]
  /\ UNCHANGED <<copy, loop>>
  /\ UNCHANGED tokVars
  /\ UNCHANGED authVars
  /\ UNCHANGED engVars
  /\ UNCHANGED strVars


(***************************************************************************)
(* One session in detail (server.go: the goroutine of ListenAndServe,      *)
(* handleConnection, download, upload).  sctx is ctxConn, the context of   *)
(* the session; copy.cdl tells that the deadline set on the connection at  *)
(* accept has passed; copy.remote is what the peer does: it exchanges      *)
(* bytes, it is stalled (it neither sends nor reads nor closes), or it has *)
(* closed its end.  io.Copy is the loop                                    *)
(*   nr, er := src.Read(buf); nw, ew := dst.Write(buf[:nr]); written += nw *)
(* that ends at the first error, with io.EOF of the source turned to nil.  *)
(***************************************************************************)
MaxWritten == 4

CopyIdle == [pc |-> "off", dir |-> "none", verified |-> FALSE, replied |-> 0,
             nr |-> 0, written |-> 0, pre |-> 0, payload |-> 0,
             cerr |-> Nil, by |-> "none", err |-> Nil,
             cdl |-> FALSE, remote |-> "active", closed |-> FALSE]

\* a byte counter, kept within the bound of the model
bump(x, n) == IF x + n > MaxWritten THEN MaxWritten ELSE x + n

connReady_NoDeadline(c) == c.remote # "stalled"

\* a Read or a Write on the connection returns: the peer acts, or has closed,
\* or the deadline of conn.SetDeadline (connAccept) has passed
connReady(c) == c.remote # "stalled" \/ c.cdl

\* what conn.Read returns when it returns
connRead(c) ==
  IF c.cdl THEN {[n |-> 0, err |-> "i/o timeout"]}
  ELSE IF c.remote = "closed"
    THEN {[n |-> 0, err |-> "EOF"], [n |-> 0, err |-> "connection reset by peer"]}
    ELSE {[n |-> k, err |-> Nil] : k \in 1..MaxBuf}

\* what conn.Write(buf[:nr]) returns when it returns
connWrite(c) ==
  IF c.cdl THEN {[n |-> 0, err |-> "i/o timeout"]}
  ELSE IF c.remote = "closed"
    THEN {[n |-> 0, err |-> "broken pipe"], [n |-> 0, err |-> "connection reset by peer"]}
    ELSE {[n |-> c.nr, err |-> Nil]}

startTransfer_Always(r) == TRUE

\* handleConnection goes on to download or upload: auth.Verify returned no
\* error and conn.Write(header) returned no error
startTransfer(r) == r.pc = "transfer"

\* io.Copy returned cerr: download or upload returns, handleConnection returns
\* and its deferred conn.Close runs
sessionEnd(c, cerr, by) ==
  [c EXCEPT !.pc = "closed", !.cerr = cerr, !.by = by, !.closed = TRUE, !.nr = 0,
            !.err = IF c.dir = "download" THEN download(cerr) ELSE upload(cerr)]

\* the deadline of the connection passes
ConnDeadline ==
  /\ copy.pc \notin {"off", "closed", "done"}
  /\ ~copy.cdl
  /\ copy' = [copy EXCEPT !.cdl = TRUE]
  /\ UNCHANGED <<boot, loop>>
  /\ UNCHANGED tokVars
  /\ UNCHANGED authVars
  /\ UNCHANGED engVars
  /\ UNCHANGED strVars

\* the peer stops exchanging bytes, or closes its end
PeerChange ==
  /\ copy.pc \notin {"off", "closed", "done"}
  /\ \/ copy.remote = "active" /\ copy' = [copy EXCEPT !.remote = "stalled"]
     \/ copy.remote # "closed" /\ copy' = [copy EXCEPT !.remote = "closed"]
  /\ UNCHANGED <<boot, loop>>
  /\ UNCHANGED tokVars
  /\ UNCHANGED authVars
  /\ UNCHANGED engVars
  /\ UNCHANGED strVars

\* handleConnection from auth.Verify to the first Read of io.Copy: the request
\* is read and verified, the reply is written, NewReader or NewWriter starts
\* its goroutine; or handleConnection returns an error and the connection is
\* closed
SessionHandshake ==
  /\ copy.pc = "verify"
  /\ connReady(copy)
  /\ \E h \in EngRequests,
        rd \in (IF copy.cdl \/ copy.remote = "closed"
                  THEN {[n |-> 0, err |-> "io"]}
                  ELSE ReadResults([n |-> lenToken, h |-> ZeroHeader])),
        wr \in (IF copy.cdl THEN {"err"} ELSE {"ok", "err"}) :
       LET r == handleConnection(rd, h, now, 0, [form |-> 4, addr |-> 1], wr)
           c == [copy EXCEPT !.verified = (r.verr = Nil), !.replied = r.out.n]
       IN IF startTransfer(r)
            THEN /\ copy' = [c EXCEPT !.pc = "src",
                                      !.dir = IF r.token.Download THEN "download" ELSE "upload"]
                 /\ reader' = IF r.token.Download THEN StreamNew ELSE reader
                 /\ writer' = IF r.token.Download THEN writer ELSE StreamNew
            ELSE /\ copy' = [c EXCEPT !.pc = "closed", !.err = r.err, !.closed = TRUE]
                 /\ UNCHANGED <<reader, writer>>
  /\ UNCHANGED <<sctx, boot, loop>>
  /\ UNCHANGED tokVars
  /\ UNCHANGED authVars
  /\ UNCHANGED engVars

\* download: io.Copy calls Reader.Read(buf), which blocks in <-r.errChan
CopyRead ==
  /\ copy.pc = "src"
  /\ copy.dir = "download"
  /\ copy' = [copy EXCEPT !.pc = "srcwait"]
  /\ reader' = [reader EXCEPT !.call = "waiting", !.p = MaxBuf, !.began = sctx]
  /\ UNCHANGED <<sctx, writer, boot, loop>>
  /\ UNCHANGED tokVars
  /\ UNCHANGED authVars
  /\ UNCHANGED engVars

\* download: Reader.Read returns; on an error io.Copy, download and
\* handleConnection return
CopyReadReturn ==
  /\ copy.pc = "srcwait"
  /\ reader.g \in {"sendNil", "sendErr", "closed"}
  /\ LET res == readerRead(chanRecv(reader), reader.p) IN
       /\ reader' = [reader EXCEPT !.call = "idle", !.res = res,
                                   !.last = [p |-> reader.p, began |-> reader.began, ended |-> sctx],
                                   !.g = IF @ = "closed" THEN @ ELSE afterSend(reader),
                                   !.val = Nil]
       /\ copy' = IF res.err # Nil
                    THEN sessionEnd(copy, IF res.err = "EOF" THEN Nil ELSE res.err, "ctx")
                    ELSE [copy EXCEPT !.pc = "dst", !.nr = res.n]
  /\ UNCHANGED <<sctx, writer, boot, loop>>
  /\ UNCHANGED tokVars
  /\ UNCHANGED authVars
  /\ UNCHANGED engVars

\* download: io.Copy writes the buffer to the connection
CopyWrite ==
  /\ copy.pc = "dst"
  /\ copy.dir = "download"
  /\ connReady(copy)
  /\ \E w \in connWrite(copy) :
       LET c == [copy EXCEPT !.written = bump(@, w.n), !.payload = bump(@, w.n),
                             !.pre = IF sctx = "live" THEN bump(@, w.n) ELSE @]
       IN copy' = IF w.err # Nil
                    THEN sessionEnd(c, w.err, "conn")
                    ELSE [c EXCEPT !.pc = "src", !.nr = 0]
  /\ UNCHANGED <<boot, loop>>
  /\ UNCHANGED tokVars
  /\ UNCHANGED authVars
  /\ UNCHANGED engVars
  /\ UNCHANGED strVars

\* upload: io.Copy reads from the connection and calls Writer.Write, which
\* blocks in <-w.errChan; on an error of the read io.Copy, upload and
\* handleConnection return
CopyConnRead ==
  /\ copy.pc = "src"
  /\ copy.dir = "upload"
  /\ connReady(copy)
  /\ \E r \in connRead(copy) :
       IF r.err # Nil
         THEN /\ copy' = sessionEnd(copy, IF r.err = "EOF" THEN Nil ELSE r.err, "conn")
              /\ UNCHANGED writer
         ELSE /\ copy' = [copy EXCEPT !.pc = "dstwait", !.nr = r.n, !.payload = bump(@, r.n)]
              /\ writer' = [writer EXCEPT !.call = "waiting", !.p = r.n, !.began = sctx]
  /\ UNCHANGED <<sctx, reader, boot, loop>>
  /\ UNCHANGED tokVars
  /\ UNCHANGED authVars
  /\ UNCHANGED engVars

\* upload: Writer.Write returns
CopyWriteReturn ==
  /\ copy.pc = "dstwait"
  /\ writer.g \in {"sendNil", "sendErr", "closed"}
  /\ LET res == writerWrite(chanRecv(writer), writer.p) IN
       /\ writer' = [writer EXCEPT !.call = "idle", !.res = res,
                                   !.last = [p |-> writer.p, began |-> writer.began, ended |-> sctx],
                                   !.g = IF @ = "closed" THEN @ ELSE afterSend(writer),
                                   !.val = Nil]
       /\ copy' = IF res.err # Nil
                    THEN sessionEnd(copy, res.err, "ctx")
                    ELSE [copy EXCEPT !.pc = "src", !.nr = 0, !.written = bump(@, res.n)]
  /\ UNCHANGED <<sctx, reader, boot, loop>>
  /\ UNCHANGED tokVars
  /\ UNCHANGED authVars
  /\ UNCHANGED engVars

\* the session goroutine after handleConnection: cancel(), <-semaphore, wg.Done()
SessionRelease ==
  /\ copy.pc = "closed"
  /\ CanRecv(semaphore)
  /\ sctx' = IF sctx = "live" THEN "canceled" ELSE sctx
  /\ semaphore' = [semaphore EXCEPT !.n = IF @ > 0 THEN @ - 1 ELSE @]
  /\ wg' = wg - 1
  /\ copy' = [copy EXCEPT !.pc = "done"]
  /\ UNCHANGED <<clients, ctx, listener, ch, acc, mainpc, sess>>
  /\ UNCHANGED <<reader, writer, boot, loop>>
  /\ UNCHANGED tokVars
  /\ UNCHANGED authVars


(***************************************************************************)
(* common.Read(ctx, reader, bufSize) (common/reader.go): the loop that     *)
(* reads any io.Reader until the context is done or the reader ends.  sctx *)
(* is the context; a call reader.Read(buf) returns n in 0..bufSize with    *)
(* nil, io.EOF or another error.                                           *)
(***************************************************************************)
readStep_CancelKeepsTotal(c, total, r) ==
  IF c # "live"
    THEN [ret |-> TRUE, n |-> total,
          err |-> IF ctxErr(c) = "context deadline exceeded" THEN Nil ELSE "context read error"]
    ELSE IF r.err = "EOF" THEN [ret |-> TRUE, n |-> total + r.n, err |-> Nil]
    ELSE IF r.err # Nil THEN [ret |-> TRUE, n |-> 0, err |-> "read error"]
    ELSE [ret |-> FALSE, n |-> total + r.n, err |-> Nil]

\* one iteration of the loop of Read: the select on ctx.Done(), or the default
\* branch with the outcome r of reader.Read
readStep(c, total, r) ==
  IF c # "live"
    THEN IF ctxErr(c) = "context deadline exceeded"
           THEN [ret |-> TRUE, n |-> total, err |-> Nil]
           ELSE [ret |-> TRUE, n |-> 0, err |-> "context read error"]
    ELSE IF r.err = "EOF" THEN [ret |-> TRUE, n |-> total + r.n, err |-> Nil]
    ELSE IF r.err # Nil THEN [ret |-> TRUE, n |-> 0, err |-> "read error"]
    ELSE [ret |-> FALSE, n |-> total + r.n, err |-> Nil]

\* Read runs one iteration; loop.got is the sum of the counts of the reads
\* that returned nil or io.EOF, loop.end is why Read returned
ReadLoop ==
  /\ loop.pc = "loop"
  /\ \E r \in [n : 0..loop.bufSize, err : {Nil, "EOF", "unexpected EOF"}] :
       /\ (sctx = "live" /\ r.err = Nil) => loop.reads < MaxCalls
       /\ LET s == readStep(sctx, loop.total, r)
              fresh == sctx = "live"
          IN loop' = [loop EXCEPT !.pc = IF s.ret THEN "returned" ELSE "loop",
                                  !.total = IF s.ret THEN @ ELSE s.n,
                                  !.reads = IF fresh THEN @ + 1 ELSE @,
                                  !.got = IF fresh /\ r.err \in {Nil, "EOF"} THEN @ + r.n ELSE @,
                                  !.end = IF ~s.ret THEN "none"
                                          ELSE IF ~fresh THEN sctx ELSE r.err,
                                  !.res = IF s.ret THEN [n |-> s.n, err |-> s.err] ELSE @]
  /\ UNCHANGED <<copy, boot>>
  /\ UNCHANGED tokVars
  /\ UNCHANGED authVars
  /\ UNCHANGED engVars
  /\ UNCHANGED strVars


(***************************************************************************)
(* Initial states.  Each specification starts the part of the program it   *)
(* runs and leaves the variables of the other parts at rest.               *)
(***************************************************************************)
InitTok ==
  /\ tk \in TokenSpace
  /\ tst = [TstIdle EXCEPT !.pc = "new"]
  /\ now = StartNow
  /\ peer = PeerIdle
  /\ wire = WireIdle
  /\ srv = SrvIdle
  /\ cli = CliIdle
  /\ clients = 1
  /\ ctx = "live"
  /\ listener = ListenerNew
  /\ semaphore = SemaphoreNew
  /\ ch = ChNew
  /\ acc = AccOff
  /\ mainpc = "off"
  /\ wg = 0
  /\ sess = [c \in ConnIDs |-> SessNew]
  /\ sctx = "live"
  /\ reader = StreamIdle
  /\ writer = StreamIdle
  /\ copy = CopyIdle
  /\ boot = BootIdle
  /\ loop = [pc |-> "off"]

InitAuth ==
  /\ now = StartNow
  /\ peer = PeerIdle
  /\ wire = WireIdle
  /\ srv = SrvIdle
  /\ cli = CliIdle
  /\ tk = NilToken
  /\ tst = TstIdle
  /\ clients = 1
  /\ ctx = "live"
  /\ listener = ListenerNew
  /\ semaphore = SemaphoreNew
  /\ ch = ChNew
  /\ acc = AccOff
  /\ mainpc = "off"
  /\ wg = 0
  /\ sess = [c \in ConnIDs |-> SessNew]
  /\ sctx = "live"
  /\ reader = StreamIdle
  /\ writer = StreamIdle
  /\ copy = CopyIdle
  /\ boot = BootIdle
  /\ loop = [pc |-> "off"]

InitEng ==
  /\ clients \in 1..MaxClients
  /\ ctx = "live"
  /\ listener = ListenerNew
  /\ semaphore = SemaphoreNew
  /\ ch = ChNew
  /\ acc = [pc |-> "top", conn |-> 0, err |-> Nil]
  /\ mainpc = "range"
  /\ wg = 0
  /\ sess = [c \in ConnIDs |-> SessNew]
  /\ tk = NilToken
  /\ tst = TstIdle
  /\ now = StartNow
  /\ peer = PeerIdle
  /\ wire = WireIdle
  /\ srv = SrvIdle
  /\ cli = CliIdle
  /\ sctx = "live"
  /\ reader = StreamIdle
  /\ writer = StreamIdle
  /\ copy = CopyIdle
  /\ boot = [BootIdle EXCEPT !.pc = "serving", !.tokens = serverTokens]
  /\ loop = [pc |-> "off"]

\* the server configured with Clients = 1
InitOne ==
  /\ clients = 1
  /\ ctx = "live"
  /\ listener = ListenerNew
  /\ semaphore = SemaphoreNew
  /\ ch = ChNew
  /\ acc = [pc |-> "top", conn |-> 0, err |-> Nil]
  /\ mainpc = "range"
  /\ wg = 0
  /\ sess = [c \in ConnIDs |-> SessNew]
  /\ tk = NilToken
  /\ tst = TstIdle
  /\ now = StartNow
  /\ peer = PeerIdle
  /\ wire = WireIdle
  /\ srv = SrvIdle
  /\ cli = CliIdle
  /\ sctx = "live"
  /\ reader = StreamIdle
  /\ writer = StreamIdle
  /\ copy = CopyIdle
  /\ boot = [BootIdle EXCEPT !.pc = "serving", !.tokens = serverTokens]
  /\ loop = [pc |-> "off"]

InitStream ==
  /\ sctx \in CtxStates
  /\ reader = StreamNew
  /\ writer = StreamNew
  /\ tk = NilToken
  /\ tst = TstIdle
  /\ now = StartNow
  /\ peer = PeerIdle
  /\ wire = WireIdle
  /\ srv = SrvIdle
  /\ cli = CliIdle
  /\ clients = 1
  /\ ctx = "live"
  /\ listener = ListenerNew
  /\ semaphore = SemaphoreNew
  /\ ch = ChNew
  /\ acc = AccOff
  /\ mainpc = "off"
  /\ wg = 0
  /\ sess = [c \in ConnIDs |-> SessNew]
  /\ copy = CopyIdle
  /\ boot = BootIdle
  /\ loop = [pc |-> "off"]

\* a connection has been accepted with its slot and its session goroutine
\* has created ctxConn
InitSession ==
  /\ copy = [CopyIdle EXCEPT !.pc = "verify"]
  /\ sctx = "live"
  /\ reader = StreamIdle
  /\ writer = StreamIdle
  /\ clients = 1
  /\ ctx = "live"
  /\ listener = ListenerNew
  /\ semaphore = [n |-> 1, closed |-> FALSE]
  /\ ch = ChNew
  /\ acc = AccOff
  /\ mainpc = "off"
  /\ wg = 1
  /\ sess = [c \in ConnIDs |-> SessNew]
  /\ tk = NilToken
  /\ tst = TstIdle
  /\ now = StartNow
  /\ peer = PeerIdle
  /\ wire = WireIdle
  /\ srv = SrvIdle
  /\ cli = CliIdle
  /\ boot = BootIdle
  /\ loop = [pc |-> "off"]

NextSession ==
  \/ CtxDeadline
  \/ CtxCancel
  \/ ConnDeadline
  \/ PeerChange
  \/ ReaderSelect
  \/ WriterSelect
  \/ SessionHandshake
  \/ CopyRead
  \/ CopyReadReturn
  \/ CopyWrite
  \/ CopyConnRead
  \/ CopyWriteReturn
  \/ SessionRelease

SpecSession == InitSession /\ [][NextSession]_vars

\* the process has started and the server is not constructed
InitBoot ==
  /\ boot = BootIdle
  /\ clients = 0
  /\ ctx = "live"
  /\ listener = ListenerNew
  /\ semaphore = SemaphoreNew
  /\ ch = ChNew
  /\ acc = AccOff
  /\ mainpc = "off"
  /\ wg = 0
  /\ sess = [c \in ConnIDs |-> SessNew]
  /\ tk = NilToken
  /\ tst = TstIdle
  /\ now = StartNow
  /\ peer = PeerIdle
  /\ wire = WireIdle
  /\ srv = SrvIdle
  /\ cli = CliIdle
  /\ sctx = "live"
  /\ reader = StreamIdle
  /\ writer = StreamIdle
  /\ copy = CopyIdle
  /\ loop = [pc |-> "off"]

NextBoot ==
  \/ BootNew
  \/ BootServe
  \/ BootVerify
  \/ AcceptSetDeadline
  \/ AcceptAcquire
  \/ AcceptTimeout

SpecBoot == InitBoot /\ [][NextBoot]_vars

\* Read is called with a buffer size and a context in any state
InitRead ==
  /\ \E b \in 1..MaxBuf :
       loop = [pc |-> "loop", bufSize |-> b, total |-> 0, reads |-> 0, got |-> 0,
               end |-> "none", res |-> [n |-> 0, err |-> Nil]]
  /\ sctx \in CtxStates
  /\ reader = StreamIdle
  /\ writer = StreamIdle
  /\ copy = CopyIdle
  /\ boot = BootIdle
  /\ clients = 1
  /\ ctx = "live"
  /\ listener = ListenerNew
  /\ semaphore = SemaphoreNew
  /\ ch = ChNew
  /\ acc = AccOff
  /\ mainpc = "off"
  /\ wg = 0
  /\ sess = [c \in ConnIDs |-> SessNew]
  /\ tk = NilToken
  /\ tst = TstIdle
  /\ now = StartNow
  /\ peer = PeerIdle
  /\ wire = WireIdle
  /\ srv = SrvIdle
  /\ cli = CliIdle

SpecRead == InitRead /\ [][CtxDeadline \/ CtxCancel \/ ReadLoop]_vars

NextStream ==
  \/ CtxDeadline
  \/ CtxCancel
  \/ ReaderSelect
  \/ ReaderCall
  \/ ReaderReturn
  \/ WriterSelect
  \/ WriterCall
  \/ WriterReturn

SpecStream == InitStream /\ [][NextStream]_vars

Spec == InitEng /\ [][NextEng]_vars

NextTok == TSign \/ TTouch \/ TVerify

SpecToken == InitTok /\ [][NextTok]_vars

NextAuth ==
  \/ Tick
  \/ ClientWrite
  \/ PeerWrite
  \/ ServerHandshake
  \/ ServerFinish
  \/ ClientRead
  \/ NewConn

SpecAuth == InitAuth /\ [][NextAuth]_vars

NextClient ==
  \/ Tick
  \/ ClientWrite
  \/ PeerReply
  \/ ClientRead
  \/ ClientRedial

SpecClient == InitAuth /\ [][NextClient]_vars

SpecReplay ==
  InitAuth /\ [][Tick \/ PeerPresent \/ ServerHandshake \/ ServerFinish \/ Replay]_vars

(***************************************************************************)
(* Properties of the token protocol                                        *)
(***************************************************************************)
\* the server has read a full lenToken-byte request and decided on it
FullRequest == srv.pc # "wait" /\ srv.rd.err = Nil /\ srv.rd.n = lenToken

InWindow(clock, ts) == clock - ts <= timestampLimit /\ ts - clock <= timestampLimit

\* C2: decoding a 123-byte request succeeds iff the clientID is in the table,
\* the timestamp is within the replay window and the supplied signature is the
\* digest of the received prefix and the table's secret; otherwise an error and
\* no token.
C2_DecodeIff ==
  FullRequest =>
    LET h == srv.req IN
      /\ (srv.verr = Nil) <=>
           (/\ h.client \in DOMAIN serverTokens
            /\ InWindow(srv.vnow, h.time)
            /\ h.sign = Hash(HeaderPrefix(h), serverTokens[h.client].Secret))
      /\ (srv.verr # Nil => srv.decoded = NilToken)

\* a header as Token.Sign produces it for a client of the table
CorrectlySigned(h) ==
  /\ h.client \in DOMAIN serverTokens
  /\ h.action \in {0, 1}
  /\ h.sign = Hash(HeaderPrefix(h), serverTokens[h.client].Secret)

\* C3: a correctly signed token is accepted iff -30 <= now - ts <= 30; one
\* backdated by 31 seconds is rejected and the connection is closed with no
\* reply written.
C3_ReplayWindow ==
  (FullRequest /\ CorrectlySigned(srv.req)) =>
    LET d == srv.vnow - srv.req.time IN
      /\ (srv.verr = Nil) <=> (-timestampLimit <= d /\ d <= timestampLimit)
      /\ (d = timestampLimit + 1 => srv.verr # Nil /\ wire.s2c = NoBytes /\ wire.sclosed)

C3_Witness ==
  /\ FullRequest /\ CorrectlySigned(srv.req)
  /\ srv.vnow - srv.req.time = timestampLimit + 1
  /\ srv.verr = "not synchronized time"
  /\ wire.sclosed

\* C4: whatever the reason of the rejection (failed or short read, unknown
\* clientID, timestamp outside the window, signature mismatch), the server has
\* written no byte and has closed the connection.
C4_SilentReject ==
  (srv.pc # "wait" /\ srv.verr # Nil) => (wire.s2c = NoBytes /\ wire.sclosed /\ srv.pc = "closed")

C4_Witness ==
  /\ srv.pc = "closed" /\ srv.verr = "invalid token signature"
  /\ wire.s2c = NoBytes /\ wire.sclosed

ValidPair(t) == t.ClientID \in DOMAIN serverTokens /\ t.Secret = serverTokens[t.ClientID].Secret

\* C7: a client with a pair of the table that signs its token now, whose
\* request and reply are delivered whole, gets a 123-byte reply with its
\* clientID and direction that verifies under its secret, and Handshake
\* returns nil; a client whose clientID is not in the table gets an error.
C7_Handshake ==
  cli.pc = "done" =>
    LET t == cli.token IN
      /\ (/\ ValidPair(t)
          /\ wire.c2s.n = lenToken
          /\ ~srv.fault /\ ~cli.fault
          /\ t.timestamp = cli.signedAt
          /\ cli.vnow - cli.signedAt <= timestampLimit)
         => /\ cli.err = Nil
            /\ wire.s2c.n = lenToken
            /\ cli.reply.client = t.ClientID
            /\ cli.reply.action = cli.req.action
            /\ cli.reply.sign = Hash(HeaderPrefix(cli.reply), t.Secret)
      /\ (t.ClientID \notin DOMAIN serverTokens => cli.err # Nil)

C7_Witness ==
  /\ cli.pc = "done" /\ cli.err = Nil
  /\ cli.token.ClientID = 1 /\ cli.token.Secret = "3312a18b" /\ ~cli.token.Download
  /\ cli.token.timestamp = cli.signedAt
  /\ cli.reply.client = 1 /\ cli.reply.action = 1

\* C15: a request is accepted only on a connection whose observed remote
\* address is the peerIP of its signed material, so that the same signed bytes
\* presented from another remote address are rejected.
C15_OriginBound ==
  (FullRequest /\ srv.verr = Nil) => srv.req.ip = To16(srv.token.IP)

\* the header carries the signature that the table's secret gives to the same
\* fields with the other direction: its direction byte was changed between
\* download (0) and upload (1) after signing
DirectionFlipped(h) ==
  /\ h.client \in DOMAIN serverTokens
  /\ h.action \in {0, 1}
  /\ h.sign = Hash([HeaderPrefix(h) EXCEPT !.action = 1 - h.action], serverTokens[h.client].Secret)

\* C16: a token whose direction byte was flipped after signing is rejected with
\* a signature mismatch when it is otherwise valid, and every accepted request
\* is served in the direction that was signed with the secret.
C16_DirectionBound ==
  FullRequest =>
    /\ (DirectionFlipped(srv.req) /\ InWindow(srv.vnow, srv.req.time)) =>
          (srv.verr = "invalid token signature" /\ srv.pc = "closed" /\ wire.s2c = NoBytes)
    /\ srv.verr = Nil =>
          /\ srv.req.sign.key = serverTokens[srv.req.client].Secret
          /\ srv.req.sign.pre.action \in {0, 1}
          /\ srv.token.Download = (srv.req.sign.pre.action = 0)

C16_Witness ==
  /\ FullRequest /\ DirectionFlipped(srv.req) /\ InWindow(srv.vnow, srv.req.time)
  /\ srv.req.action = 0
  /\ srv.verr = "invalid token signature"

\* C17: the token the client builds for a handshake carries the time of that
\* Build, and the reply the server signs carries the server's time at that
\* moment, also when the Token object was signed or decoded before.
C17_RefreshSetsTime ==
  /\ (cli.pc \in {"sent", "done"} => cli.req.time = cli.signedAt)
  /\ (wire.s2c.n = lenToken => wire.s2c.h.time = srv.vnow)

\* the errors of the socket that a peer ending the transfer early produces
BenignErrors == {"connection reset by peer", "broken pipe", "i/o timeout"}

\* C20: when the transfer ends with a connection reset, a broken pipe or an
\* I/O timeout of the socket, handleConnection returns no error, in the
\* download and in the upload direction.
C20_BenignCompletion ==
  (srv.pc = "closed" /\ srv.copied \in BenignErrors) => srv.err = Nil

\* C27: a request of lenToken bytes that fails more than one check is reported
\* with the first failure in the order unknown clientID, timestamp outside the
\* window, signature mismatch; the signature decides only for a known client
\* and a timestamp within the window
C27_FailureOrder ==
  FullRequest =>
    LET h == srv.req IN
      /\ h.client \notin DOMAIN serverTokens => srv.verr = "unknown clientID"
      /\ (h.client \in DOMAIN serverTokens /\ ~InWindow(srv.vnow, h.time))
           => srv.verr = "not synchronized time"
      /\ srv.verr = "invalid token signature"
           => h.client \in DOMAIN serverTokens /\ InWindow(srv.vnow, h.time)
      /\ srv.verr # Nil => srv.decoded = NilToken /\ wire.s2c = NoBytes

C27_Witness ==
  /\ FullRequest
  /\ srv.req.client \notin DOMAIN serverTokens
  /\ ~InWindow(srv.vnow, srv.req.time)
  /\ srv.req.sign = JunkSig
  /\ srv.verr = "unknown clientID"

\* C28: the server consumes exactly lenToken bytes as the request: when the
\* peer has sent lenToken bytes and no read fails, all of them are read however
\* they are split over reads, and the session is aborted as a short read only
\* if fewer than lenToken bytes arrived
C28_ExactRead ==
  (srv.pc # "wait" /\ wire.c2s.n = lenToken /\ srv.rd.err = Nil) =>
    /\ srv.rd.n = lenToken
    /\ srv.verr # "invalid token length"

(***************************************************************************)
(* Properties of Token.Sign / Token.Verify                                 *)
(***************************************************************************)
\* one of clientID, peerIP (its address), salt, timestamp, secret differs
\* from the signed token
C5_FieldChanged ==
  \/ tk.ClientID # tst.signed.ClientID
  \/ tk.IP.addr # tst.signed.IP.addr
  \/ tk.salt # tst.signed.salt
  \/ tk.timestamp # tst.signed.timestamp
  \/ tk.Secret # tst.signed.Secret

C5_Unchanged == [tk EXCEPT !.signature = ZeroSig] = [tst.signed EXCEPT !.signature = ZeroSig]

\* C5: after signing, a change of clientID, peerIP, salt, timestamp or secret
\* makes Verify of the original signature false; a changed signature makes
\* Verify false; with nothing changed Verify is true.
C5_TamperSensitive ==
  tst.pc = "verified" =>
    /\ (C5_FieldChanged /\ tst.vsig = tst.data.sign) => ~tst.ok
    /\ (C5_Unchanged /\ tst.vsig # tst.data.sign) => ~tst.ok
    /\ (C5_Unchanged /\ tst.vsig = tst.data.sign) => tst.ok

C5_Witness ==
  /\ tst.pc = "verified" /\ tst.touched = 1
  /\ tk.salt # tst.signed.salt
  /\ tst.vsig = tst.data.sign /\ ~tst.ok

(***************************************************************************)
(* Properties of the server engine                                         *)
(***************************************************************************)
\* accepted connections whose session has not yet released its slot
InFlight == {c \in ConnIDs : sess[c].pc \in {"accepted", "handshake", "transfer", "closed"}}

InTransfer == {c \in ConnIDs : sess[c].pc = "transfer"}

\* C1: at most Clients accepted connections have not released their slot (so
\* at most Clients sessions are in the transfer phase), and AcceptTCP is not
\* being called while Clients sessions are in flight.
C1_AdmissionBound ==
  /\ Cardinality(InFlight) <= clients
  /\ Cardinality(InTransfer) <= clients
  /\ (acc.pc = "accept" => Cardinality(InFlight) < clients)

C1_Witness ==
  /\ clients = MaxClients
  /\ Cardinality(InTransfer) = clients
  /\ Len(listener.backlog) > 0
  /\ acc.pc = "acquire"

\* the server configured with Clients = 1: the accept goroutine and the
\* sessions keep running; a pending connection is returned by AcceptTCP when it
\* is called again and again
FairSpec ==
  /\ InitOne
  /\ [][NextEng]_vars
  /\ WF_vars(AcceptSetDeadline) /\ WF_vars(AcceptAcquire) /\ SF_vars(AcceptConn)
  /\ WF_vars(Dispatch) /\ WF_vars(RangeEnd) /\ WF_vars(Return)
  /\ \A c \in ConnIDs :
       /\ WF_vars(SessHandshake(c)) /\ WF_vars(SessTransfer(c))
       /\ WF_vars(SessRelease(c)) /\ WF_vars(SessDone(c))

\* the step takes connection c out of the backlog
Accepts(c) == sess[c].pc = "backlog" /\ sess'[c].pc # "backlog"

\* C8: with Clients = 1, a connection is taken from the backlog only when every
\* earlier session has closed its connection and released the slot; a waiting
\* connection is never refused: it leaves the backlog only by being accepted,
\* and it is accepted eventually unless the server is cancelled.
C8_SecondWaits ==
  /\ [][clients = 1 =>
          \A c \in ConnIDs :
            Accepts(c) =>
              /\ sess'[c].pc \in {"accepted", "aborted"}
              /\ \A d \in ConnIDs \ {c} : sess[d].pc \notin {"accepted", "handshake", "transfer", "closed"}]_vars
  /\ \A c \in ConnIDs :
       (clients = 1 /\ sess[c].pc = "backlog") ~> (sess[c].pc # "backlog" \/ ctx # "live")

C8_Witness ==
  /\ clients = 1
  /\ sess[1].pc = "released"
  /\ sess[2].pc = "accepted"
  /\ semaphore.n = 1

\* the sessions whose goroutine was started and has not yet called wg.Done
Running == {c \in ConnIDs : sess[c].pc \in {"handshake", "transfer", "closed", "released"}}

\* C11: ListenAndServe has returned only if no dispatched session task is still
\* running (in its handshake, its transfer, or before its wg.Done).
C11_ReturnAfterSessions ==
  mainpc = "returned" => (Running = {} /\ wg = 0)

C11_Witness ==
  /\ mainpc = "returned"
  /\ \E c \in ConnIDs : sess[c].pc = "done"
  /\ \E c \in ConnIDs : sess[c].pc = "backlog"

\* the step starts the session goroutine of connection c
Dispatches(c) == sess[c].pc = "accepted" /\ sess'[c].pc = "handshake"

\* C12: once the top-level context is cancelled, no step takes a connection
\* from the listener and no step starts a session task.
C12_StopAccepting ==
  [][ctx # "live" => \A c \in ConnIDs : ~Accepts(c) /\ ~Dispatches(c)]_vars

\* some session goroutine takes its next step
SessStep ==
  \E c \in ConnIDs : SessHandshake(c) \/ SessTransfer(c) \/ SessRelease(c) \/ SessDone(c)

\* every goroutine of the server keeps running, and the accept deadline is a
\* real timer: AcceptTCP, called again and again, eventually times out
FairCancelSpec ==
  /\ InitEng
  /\ [][NextEng]_vars
  /\ WF_vars(AcceptSetDeadline \/ AcceptAcquire) /\ SF_vars(AcceptTimeout)
  /\ WF_vars(Dispatch \/ RangeEnd \/ Return)
  /\ WF_vars(SessStep)

\* C13: after the top-level context is cancelled ListenAndServe eventually
\* returns through its return nil (connection attempts stop arriving: there
\* are MaxConns of them), whatever the state of the semaphore at that moment.
C13_CancelReturns ==
  (ctx # "live") ~> (mainpc = "returned")

\* the context is cancelled while the semaphore is saturated and the accept
\* goroutine waits for a slot
C13_Witness ==
  /\ ctx # "live"
  /\ semaphore.n = clients
  /\ acc.pc = "acquire"
  /\ mainpc = "range"
  /\ Cardinality(InTransfer) = clients

\* the slots acquired and not yet released: one per connection accepted whose
\* session has not done its <-semaphore, and one while connAccept is between
\* its send on the semaphore and its return
SlotsOwed == Cardinality(InFlight) + (IF acc.pc = "accept" THEN 1 ELSE 0)

\* C14: the semaphore holds exactly the slots acquired and not yet released
\* (each acquired slot is released once, none is released that was not
\* acquired), and it holds none when ListenAndServe has returned.
C14_SlotReleasedOnce ==
  /\ semaphore.n = SlotsOwed
  /\ (mainpc = "returned" => semaphore.n = 0)

\* slots were released by connAccept (deadline failure on an accepted
\* connection) and by sessions after a failed handshake and after a transfer
C14_Witness ==
  /\ mainpc = "returned"
  /\ semaphore.n = 0
  /\ \E c \in ConnIDs : sess[c].pc = "aborted"
  /\ \E c \in ConnIDs : sess[c].pc = "done"

\* the step is an AcceptTCP that fails with an error that is no timeout (no
\* connection is taken from the listener)
AcceptFails ==
  /\ acc.pc = "accept"
  /\ acc'.err = "skip connection"
  /\ listener'.backlog = listener.backlog

\* C18: an accept error that is not a timeout releases the slot and ends the
\* accept loop: the accept goroutine exits and closes the channel of
\* connections, so that no further connection is accepted.
C18_AcceptErrorFatal ==
  [][AcceptFails =>
       /\ semaphore'.n = semaphore.n - 1
       /\ acc'.pc = "exited"
       /\ ch'.closed]_vars

\* connection d ended with an error of its own: conn.SetDeadline failed after
\* the accept, or handleConnection returned an error (handshake or transfer)
Failed(d) ==
  \/ sess[d].pc = "aborted"
  \/ sess[d].pc = "closed" /\ sess[d].err # Nil

\* the step is the one in which connection c fails
Fails(c) ==
  \/ sess[c].pc # "aborted" /\ sess'[c].pc = "aborted"
  \/ sess[c].pc \in {"handshake", "transfer"} /\ sess'[c].pc = "closed" /\ sess'[c].err # Nil

\* C19: the accept loop ends only when the context is cancelled; the step in
\* which a connection fails changes no other session and leaves the accept loop
\* and ListenAndServe running; and a connection that waits while another has
\* failed is still accepted and dispatched (unless the server is cancelled).
C19_ErrorsConfined ==
  /\ [](acc.pc = "exited" => ctx # "live")
  /\ [][\A c \in ConnIDs :
          Fails(c) =>
            /\ \A d \in ConnIDs \ {c} : sess'[d] = sess[d]
            /\ (acc.pc # "exited" => acc'.pc # "exited")
            /\ ch' = ch /\ mainpc' = mainpc /\ ctx' = ctx]_vars
  /\ \A c \in ConnIDs :
       (sess[c].pc = "backlog" /\ \E d \in ConnIDs : Failed(d))
         ~> (sess[c].pc \notin {"backlog", "accepted"} \/ ctx # "live")

\* one connection was dropped at its deadline, one ended with a transfer
\* error, a third waits and the accept loop is running
C19_Witness ==
  /\ ctx = "live"
  /\ sess[1].pc = "aborted"
  /\ sess[2].pc = "closed" /\ sess[2].err = "data write/read"
  /\ sess[3].pc = "backlog"
  /\ acc.pc = "acquire"

(***************************************************************************)
(* Properties of the Reader and the Writer                                 *)
(***************************************************************************)
\* C9: a Read that begins at or after the deadline returns (0, io.EOF); one
\* that begins after an explicit cancellation returns a non-EOF error; one
\* that returns while the context is live fills the buffer with no error.
C9_ReaderDeadline ==
  reader.calls > 0 =>
    /\ (reader.last.began = "deadline" => reader.res = [n |-> 0, err |-> "EOF"])
    /\ (reader.last.began = "canceled" => reader.res.n = 0 /\ reader.res.err \notin {Nil, "EOF"})
    /\ (reader.last.ended = "live" => reader.res = [n |-> reader.last.p, err |-> Nil])

\* C10: a Write that returns while the context is live returns (len(p), nil);
\* one that begins at or after the deadline returns (0, ErrWriterTimeout); one
\* that begins after an explicit cancellation returns (0, the context's
\* cancellation error).
C10_WriterDeadline ==
  writer.calls > 0 =>
    /\ (writer.last.ended = "live" => writer.res = [n |-> writer.last.p, err |-> Nil])
    /\ (writer.last.began = "deadline" => writer.res = [n |-> 0, err |-> "writer timeout"])
    /\ (writer.last.began = "canceled" => writer.res = [n |-> 0, err |-> "context canceled"])

(***************************************************************************)
(* Properties of one session (SpecSession)                                 *)
(***************************************************************************)

\* C21: when the transfer of a session ended because its context ended (the
\* Reader or the Writer returned the error of its goroutine), handleConnection
\* returns an error if the context was cancelled, for download and for upload
\* alike, and no error if the context reached its deadline
C21_CancelIsError ==
  (copy.pc \in {"closed", "done"} /\ copy.by = "ctx") =>
    /\ sctx = "canceled" => copy.err # Nil
    /\ sctx = "deadline" => copy.err = Nil

\* C22: the phases of a session are ordered: no payload byte is written or read
\* before the request token is verified and the whole reply of lenToken bytes
\* is written; the connection is closed only when the transfer has ended (no
\* payload moves afterwards); the semaphore slot is released only after the
\* connection is closed
C22_PhaseOrder ==
  /\ [](copy.payload > 0 \/ copy.pc \in {"src", "srcwait", "dst", "dstwait"}
          => copy.verified /\ copy.replied = lenToken)
  /\ [](copy.closed => copy.pc \in {"closed", "done"})
  /\ [][copy.closed => copy'.closed /\ copy'.payload = copy.payload]_vars
  /\ [][semaphore'.n < semaphore.n => copy.closed]_vars

C22_Witness == copy.pc = "done" /\ copy.payload > 0 /\ semaphore.n = 0

(***************************************************************************)
(* Properties of Token.Handshake against any peer (SpecClient)             *)
(***************************************************************************)

\* C23: Handshake returns nil exactly when the request was written whole
\* (lenToken bytes, no error), lenToken bytes of reply were read without error
\* and the reply verifies under the client's own secret; every other outcome
\* is an error, and after a failed or short write no reply is read
C23_HandshakeErrors ==
  /\ [](cli.pc = "done" =>
          (cli.err = Nil <=> /\ wire.c2s.n = lenToken
                             /\ cli.rd.err = Nil /\ cli.rd.n = lenToken
                             /\ cli.reply.client = cli.token.ClientID
                             /\ InWindow(cli.vnow, cli.reply.time)
                             /\ cli.reply.sign = Hash(HeaderPrefix(cli.reply), cli.token.Secret)))
  /\ [][cli.pc = "idle" /\ cli'.pc = "done"
          => cli'.err # Nil /\ cli'.rd = cli.rd /\ cli'.reply = cli.reply]_vars
  /\ [][cli.pc = "idle" /\ cli'.pc = "sent" => wire'.c2s.n = lenToken]_vars


\* C24: a download whose context reached its deadline while the peer kept
\* reading and the connection's own deadline had not passed ends with no
\* error and reports a byte count that is greater than zero and equals the
\* bytes written to the connection before the deadline
C24_DeadlineCount ==
  (/\ copy.pc \in {"closed", "done"}
   /\ copy.dir = "download"
   /\ copy.remote = "active" /\ ~copy.cdl
   /\ sctx = "deadline") =>
    /\ copy.err = Nil
    /\ copy.written > 0
    /\ copy.written = copy.pre

(***************************************************************************)
(* Properties of the start-up (SpecBoot)                                   *)
(***************************************************************************)
\* C25: authorization is optional when no credentials are configured: loading
\* an empty SPTS_TOKENS yields no error, and Verify called with an empty
\* credential table returns no error and no token
C25_OptionalAuth ==
  /\ (boot.pc \in {"serving", "returned"} /\ Len(boot.env) = 0) => boot.err = Nil
  /\ (boot.vpc # "none" /\ boot.vtab = NoTokens)
       => boot.vres.err = Nil /\ boot.vres.token = NilToken

\* C26: New rejects Clients < 1, so a server that runs has a semaphore of
\* capacity at least 1, and the accept goroutine can take a slot whenever no
\* slot is taken
C26_CapacityAtLeastOne ==
  /\ boot.pc = "failed" <=> (boot.pc # "off" /\ boot.want < 1)
  /\ boot.pc = "serving" => clients >= 1
  /\ (acc.pc = "acquire" /\ semaphore.n = 0) => CanSend(semaphore, clients)

C26_Witness == boot.pc = "serving" /\ acc.pc = "accept" /\ semaphore.n = 1


\* one session whose goroutines keep running while time passes: the deadline
\* of the connection is reached, the goroutines of the Reader and the Writer
\* and of the session take their steps when they can
FairSession ==
  /\ InitSession /\ [][NextSession]_vars
  /\ WF_vars(ConnDeadline)
  /\ WF_vars(ReaderSelect)
  /\ WF_vars(WriterSelect)
  /\ WF_vars(SessionHandshake \/ CopyRead \/ CopyReadReturn \/ CopyWrite
               \/ CopyConnRead \/ CopyWriteReturn \/ SessionRelease)

\* C29: the session of an accepted connection ends and releases its slot
\* whatever the peer does (it may never send, stop reading or never close):
\* once the deadline set on the connection at accept has passed, no step of the
\* session waits for the peer
C29_SessionEnds ==
  /\ (copy.pc = "verify") ~> (copy.pc = "done" /\ semaphore.n = 0)
  /\ copy.cdl ~> (copy.pc = "done" /\ semaphore.n = 0)

C29_Witness ==
  /\ copy.pc = "done" /\ semaphore.n = 0
  /\ copy.remote = "stalled" /\ copy.cdl
  /\ copy.cerr = "i/o timeout"

(***************************************************************************)
(* Termination of the calls of the Reader and the Writer                   *)
(***************************************************************************)
\* the Reader and the Writer with their goroutines running: a goroutine at its
\* select takes a branch, and a receive that can complete does
FairStream ==
  /\ InitStream /\ [][NextStream]_vars
  /\ WF_vars(ReaderSelect) /\ WF_vars(ReaderReturn)
  /\ WF_vars(WriterSelect) /\ WF_vars(WriterReturn)

\* C30: no call of Reader.Read or Writer.Write blocks forever, whether it
\* begins before, at or after the end of the context: it returns with the one
\* value its goroutine hands over, or at once when errChan is closed
C30_CallsReturn ==
  /\ (reader.call = "waiting") ~> (reader.call = "idle")
  /\ (writer.call = "waiting") ~> (writer.call = "idle")
  /\ [](reader.call = "waiting" /\ reader.g \in {"sendNil", "sendErr", "closed"}
          => ENABLED ReaderReturn)
  /\ [](writer.call = "waiting" /\ writer.g \in {"sendNil", "sendErr", "closed"}
          => ENABLED WriterReturn)
  /\ [](reader.g \in {"select", "sendNil", "sendErr", "closed"})
  /\ [](writer.g \in {"select", "sendNil", "sendErr", "closed"})

C30_Witness ==
  /\ reader.g = "closed" /\ reader.call = "idle" /\ reader.calls = MaxCalls
  /\ reader.last.began # "live"
  /\ writer.g = "closed" /\ writer.call = "idle" /\ writer.calls = MaxCalls

C32_ReadResult ==
  loop.pc = "returned" =>
    /\ loop.end \in {"EOF", "deadline"} => loop.res = [n |-> loop.got, err |-> Nil]
    /\ loop.end = "canceled" => loop.res = [n |-> 0, err |-> "context read error"]
    /\ loop.end = "unexpected EOF" => loop.res = [n |-> 0, err |-> "read error"]

C32_Witness ==
  /\ loop.pc = "returned" /\ loop.end = "deadline"
  /\ loop.reads = 2 /\ loop.res.n > 2 /\ loop.res.err = Nil

C34_StickyEnd ==
  [][/\ (reader.calls > 0 /\ reader.res.err # Nil /\ reader'.calls = reader.calls + 1) =>
          (reader'.res.err # Nil /\ reader'.res.n = 0)
     /\ (writer.calls > 0 /\ writer.res.err # Nil /\ writer'.calls = writer.calls + 1) =>
          (writer'.res.err # Nil /\ writer'.res.n = 0)]_vars

(***************************************************************************)
(* The goroutines of NewReader and NewWriter in a session (FairSession)    *)
(***************************************************************************)
\* C35: the goroutine started by NewReader or NewWriter terminates once its
\* context is done, also when io.Copy has stopped calling Read or Write
\* before the context ended: no goroutine stays blocked on its send on errChan.
C35_GoroutineEnds ==
  /\ (sctx # "live" /\ reader.g # "off") ~> (reader.g = "closed")
  /\ (sctx # "live" /\ writer.g # "off") ~> (writer.g = "closed")

(***************************************************************************)
(* The reply that Token.Handshake accepts (SpecClient)                     *)
(***************************************************************************)
\* C36: Handshake returns nil only if the reply was produced by a peer that
\* holds the client's secret: a peer that sends the client's own request back
\* as the reply does not make Handshake return nil.
C36_EchoRejected ==
  (/\ cli.pc = "done"
   /\ peer.kind = "rogue"
   /\ cli.rd.err = Nil /\ cli.rd.n = lenToken
   /\ cli.reply = cli.req) => cli.err # Nil

(***************************************************************************)
(* The close of the semaphore (Spec)                                       *)
(***************************************************************************)
\* C37: the semaphore is closed only after the accept goroutine has exited and
\* every dispatched session has released its slot, and no step acquires or
\* releases a slot once the semaphore is closed.
C37_CloseLast ==
  /\ [](semaphore.closed =>
          /\ acc.pc = "exited"
          /\ ch.closed
          /\ semaphore.n = 0
          /\ \A c \in ConnIDs : sess[c].pc \in {"new", "backlog", "aborted", "done"})
  /\ [][semaphore.closed => semaphore' = semaphore]_vars

C37_Witness ==
  /\ semaphore.closed
  /\ mainpc = "returned"
  /\ Cardinality({c \in ConnIDs : sess[c].pc = "done"}) >= 2

====
